---- MODULE Spec2Model ----
(***************************************************************************)
(* Model of darling's `ident` field handling:                              *)
(*   core/src/util/ident_field.rs     IdentField, its two generators and   *)
(*                                    its ParseAttribute::parse_nested     *)
(*   core/src/codegen/ident_field.rs  create_optional / create over a      *)
(*                                    ForwardedField                       *)
(*                                                                         *)
(* A token stream is a sequence of tokens, a token is a string.  `::` and  *)
(* `->` are written as one token each and a delimited group is written     *)
(* flat, with its delimiters as tokens.                                    *)
(***************************************************************************)
EXTENDS Integers, Sequences, FiniteSets, TLC

VARIABLES self, call, ret, lastWith

vars == <<self, call, ret, lastWith>>

\* ------------------------------------------------------------------ bounds
\* Source locations of attributes are 1..MaxSpan; 0 is "no span".
MaxSpan == 2
\* A configuration key is a path of 1..MaxSegments segments.
MaxSegments == 2

\* ------------------------------------------------------------- input sets
\* Field names (syn::Ident).
Idents == {"ident", "name"}

\* Declared types (syn::Type), as token streams.
Types == {<<"Ident">>, <<"Option", "<", "String", ">">>}

\* Expressions a `with = ...` value can be (syn::Expr): a path, a closure,
\* and a literal, which is no callable.
Exprs ==
    { [kind |-> "Path",    tokens |-> <<"require_ident">>],
      [kind |-> "Path",    tokens |-> <<"util", "::", "check">>],
      [kind |-> "Closure", tokens |-> <<"|", "i", "|", "Ok", "(", "i", ")">>],
      [kind |-> "Lit",     tokens |-> <<"\"require_ident\"">>] }

\* Option<Callable>: None, or Some(callable) holding the expression's tokens.
None == [some |-> FALSE, call |-> <<>>]
Some(c) == [some |-> TRUE, call |-> c]
Callables == {e.tokens : e \in {x \in Exprs : x.kind \in {"Path", "Closure"}}}
OptCallables == {None} \cup {Some(c) : c \in Callables}

\* The expressions the derive passes as `input` (impl ToTokens).
Inputs == {<<"v">>, <<"f", ".", "ident", ".", "clone", "(", ")">>}

\* IdentField / ForwardedField: { ident, ty, with }.
Descriptors == [ident : Idents, ty : Types, with : OptCallables]

\* Keys (syn::Path): an optional leading `::` and 1..MaxSegments segments.
Segments == {"with", "skip"}
SegSeqs == UNION {[1..n -> Segments] : n \in 1..MaxSegments}
Paths == [leading_colon : BOOLEAN, segments : SegSeqs]

NoExpr == [kind |-> "None", tokens |-> <<>>]
\* syn::Meta: a word (Path), a list, or `key = value` (NameValue).
Metas ==
    [kind : {"Path", "List"}, path : Paths, value : {NoExpr}, span : 1..MaxSpan]
    \cup
    [kind : {"NameValue"}, path : Paths, value : Exprs, span : 1..MaxSpan]

NoMeta == [kind |-> "None", path |-> [leading_colon |-> FALSE, segments |-> <<>>],
           value |-> NoExpr, span |-> 0]
NoDesc == [ident |-> "", ty |-> <<>>, with |-> None]

\* --------------------------------------------------------------- results
NoError == [kind |-> "None", name |-> "", span |-> 0]
Ok == [ok |-> TRUE, err |-> NoError]
Err(e) == [ok |-> FALSE, err |-> e]

\* ------------------------------------------------- util::IdentField codegen
\* IdentField::create_field_inner wrapping the input of the optional entry
\* point in Some(..) when no transform is configured.
create_field_inner_wraps(self_, input, is_option_ident) ==
    IF self_.with.some
    THEN <<self_.ident, ":", "::", "darling", "::", "export", "::", "identity", "::", "<",
           "fn", "(">>
         \o (IF is_option_ident
             THEN <<"::", "darling", "::", "export", "::", "Option", "<",
                    "::", "darling", "::", "export", "::", "syn", "::", "Ident", ">">>
             ELSE <<"::", "darling", "::", "export", "::", "syn", "::", "Ident">>)
         \o <<")", "->", "::", "darling", "::", "Result", "<">> \o self_.ty
         \o <<">", ">", "(">> \o self_.with.call \o <<")", "(">> \o input
         \o <<")", "?", ",">>
    ELSE IF is_option_ident
         THEN <<self_.ident, ":", "Some", "(">> \o input \o <<")", ",">>
         ELSE <<self_.ident, ":">> \o input \o <<",">>

\* IdentField::create_field_inner without the `?` after the call.
create_field_inner_no_try(self_, input, is_option_ident) ==
    IF self_.with.some
    THEN <<self_.ident, ":", "::", "darling", "::", "export", "::", "identity", "::", "<",
           "fn", "(">>
         \o (IF is_option_ident
             THEN <<"::", "darling", "::", "export", "::", "Option", "<",
                    "::", "darling", "::", "export", "::", "syn", "::", "Ident", ">">>
             ELSE <<"::", "darling", "::", "export", "::", "syn", "::", "Ident">>)
         \o <<")", "->", "::", "darling", "::", "Result", "<">> \o self_.ty
         \o <<">", ">", "(">> \o self_.with.call \o <<")", "(">> \o input
         \o <<")", ",">>
    ELSE <<self_.ident, ":">> \o input \o <<",">>

\* IdentField::create_field_inner
create_field_inner(self_, input, is_option_ident) ==
    LET ident == self_.ident IN
    IF self_.with.some
    THEN LET callable == self_.with.call
             ty == self_.ty
             input_ty ==
                 IF is_option_ident
                 THEN <<"::", "darling", "::", "export", "::", "Option", "<",
                        "::", "darling", "::", "export", "::", "syn", "::", "Ident", ">">>
                 ELSE <<"::", "darling", "::", "export", "::", "syn", "::", "Ident">>
         IN <<ident, ":", "::", "darling", "::", "export", "::", "identity", "::", "<",
              "fn", "(">> \o input_ty
            \o <<")", "->", "::", "darling", "::", "Result", "<">> \o ty
            \o <<">", ">", "(">> \o callable \o <<")", "(">> \o input
            \o <<")", "?", ",">>
    ELSE <<ident, ":">> \o input \o <<",">>

\* IdentField::create_field_optional
create_field_optional(self_, input) == create_field_inner(self_, input, TRUE)

\* IdentField::create_field
create_field(self_, input) == create_field_inner(self_, input, FALSE)

\* --------------------------------------------------- codegen::ident_field
\* create_inner ignoring is_option_ident: the input type is always Ident.
create_inner_ignores_flag(ident_field, input, is_option_ident) ==
    IF ident_field.with.some
    THEN <<ident_field.ident, ":", "_darling", "::", "export", "::", "identity", "::", "<",
           "fn", "(", "_darling", "::", "export", "::", "syn", "::", "Ident">>
         \o <<")", "->", "_darling", "::", "Result", "<">> \o ident_field.ty
         \o <<">", ">", "(">> \o ident_field.with.call \o <<")", "(">> \o input
         \o <<")", "?", ",">>
    ELSE <<ident_field.ident, ":">> \o input \o <<",">>

\* create_inner ascribing the result as Result<Ident> instead of Result<#ty>.
create_inner_fixed_result(ident_field, input, is_option_ident) ==
    IF ident_field.with.some
    THEN <<ident_field.ident, ":", "_darling", "::", "export", "::", "identity", "::", "<",
           "fn", "(">>
         \o (IF is_option_ident
             THEN <<"_darling", "::", "export", "::", "Option", "<",
                    "_darling", "::", "export", "::", "syn", "::", "Ident", ">">>
             ELSE <<"_darling", "::", "export", "::", "syn", "::", "Ident">>)
         \o <<")", "->", "_darling", "::", "Result", "<", "_darling", "::", "export",
              "::", "syn", "::", "Ident">>
         \o <<">", ">", "(">> \o ident_field.with.call \o <<")", "(">> \o input
         \o <<")", "?", ",">>
    ELSE <<ident_field.ident, ":">> \o input \o <<",">>

\* codegen::ident_field::create_inner
create_inner(ident_field, input, is_option_ident) ==
    LET ident == ident_field.ident IN
    IF ident_field.with.some
    THEN LET callable == ident_field.with.call
             ty == ident_field.ty
             input_ty ==
                 IF is_option_ident
                 THEN <<"_darling", "::", "export", "::", "Option", "<",
                        "_darling", "::", "export", "::", "syn", "::", "Ident", ">">>
                 ELSE <<"_darling", "::", "export", "::", "syn", "::", "Ident">>
         IN <<ident, ":", "_darling", "::", "export", "::", "identity", "::", "<",
              "fn", "(">> \o input_ty
            \o <<")", "->", "_darling", "::", "Result", "<">> \o ty
            \o <<">", ">", "(">> \o callable \o <<")", "(">> \o input
            \o <<")", "?", ",">>
    ELSE <<ident, ":">> \o input \o <<",">>

\* codegen::ident_field::create_optional
create_optional(ident_field, input) == create_inner(ident_field, input, TRUE)

\* codegen::ident_field::create
create(ident_field, input) == create_inner(ident_field, input, FALSE)

\* ------------------------------------------------------- attribute parsing
\* syn::Path::is_ident: no leading colon, one segment, that segment is `s`.
is_ident(path, s) ==
    /\ ~path.leading_colon
    /\ Len(path.segments) = 1
    /\ path.segments[1] = s

RECURSIVE JoinSegments(_)
JoinSegments(segs) ==
    IF Len(segs) = 0 THEN ""
    ELSE IF Len(segs) = 1 THEN segs[1]
    ELSE segs[1] \o "::" \o JoinSegments(Tail(segs))

\* darling's path_to_string: the segments' idents joined by "::".
path_to_string(path) == JoinSegments(path.segments)

\* Error::unknown_field_path: an unknown-field error naming the path, no span yet.
unknown_field_path(path) ==
    [kind |-> "UnknownField", name |-> path_to_string(path), span |-> 0]

\* Error::with_span: attach the node's span unless the error already has one.
with_span(e, node) == IF e.span = 0 THEN [e EXCEPT !.span = node.span] ELSE e

\* FromMeta::from_meta for Option<Callable>: a `key = value` whose value is a
\* path or a closure parses to Some(callable); anything else is a parse error.
from_meta(mi) ==
    IF mi.kind = "NameValue"
    THEN IF mi.value.kind \in {"Path", "Closure"}
         THEN [ok |-> TRUE, val |-> Some(mi.value.tokens), err |-> NoError]
         ELSE [ok |-> FALSE, val |-> None,
               err |-> [kind |-> "UnexpectedType", name |-> mi.value.kind, span |-> mi.span]]
    ELSE [ok |-> FALSE, val |-> None,
          err |-> [kind |-> "UnsupportedFormat", name |-> mi.kind, span |-> mi.span]]

\* parse_nested keeping a transform that is already configured.
parse_nested_keeps_first(self_, mi) ==
    IF is_ident(mi.path, "with")
    THEN LET r == from_meta(mi) IN
         IF r.ok
         THEN [self |-> IF self_.with.some THEN self_ ELSE [self_ EXCEPT !.with = r.val],
               ret |-> Ok]
         ELSE [self |-> self_, ret |-> Err(r.err)]
    ELSE [self |-> self_, ret |-> Err(with_span(unknown_field_path(mi.path), mi))]

\* parse_nested matching the key on its last segment (`skip::with` is `with`)
\* and ignoring any other key.
parse_nested_ignores_unknown(self_, mi) ==
    IF mi.path.segments[Len(mi.path.segments)] = "with"
    THEN LET r == from_meta(mi) IN
         IF r.ok
         THEN [self |-> [self_ EXCEPT !.with = r.val], ret |-> Ok]
         ELSE [self |-> self_, ret |-> Err(r.err)]
    ELSE [self |-> self_, ret |-> Ok]

\* parse_nested storing the parsed value's tokens in ty as well.
parse_nested_sets_ty(self_, mi) ==
    IF is_ident(mi.path, "with")
    THEN LET r == from_meta(mi) IN
         IF r.ok
         THEN [self |-> [self_ EXCEPT !.with = r.val, !.ty = r.val.call], ret |-> Ok]
         ELSE [self |-> self_, ret |-> Err(r.err)]
    ELSE [self |-> self_, ret |-> Err(with_span(unknown_field_path(mi.path), mi))]

\* parse_nested assigning before it propagates: a failed parse clears the transform.
parse_nested_clears_on_error(self_, mi) ==
    IF is_ident(mi.path, "with")
    THEN LET r == from_meta(mi) IN
         IF r.ok
         THEN [self |-> [self_ EXCEPT !.with = r.val], ret |-> Ok]
         ELSE [self |-> [self_ EXCEPT !.with = None], ret |-> Err(r.err)]
    ELSE [self |-> self_, ret |-> Err(with_span(unknown_field_path(mi.path), mi))]

\* parse_nested rejecting a `with` when a transform is already configured.
parse_nested_rejects_duplicate(self_, mi) ==
    IF is_ident(mi.path, "with")
    THEN IF self_.with.some
         THEN [self |-> self_,
               ret |-> Err([kind |-> "DuplicateField", name |-> "with", span |-> mi.span])]
         ELSE LET r == from_meta(mi) IN
              IF r.ok
              THEN [self |-> [self_ EXCEPT !.with = r.val], ret |-> Ok]
              ELSE [self |-> self_, ret |-> Err(r.err)]
    ELSE [self |-> self_, ret |-> Err(with_span(unknown_field_path(mi.path), mi))]

\* <IdentField as ParseAttribute>::parse_nested: the descriptor after the call
\* and the call's result.
parse_nested(self_, mi) ==
    LET path == mi.path IN
    IF is_ident(path, "with")
    THEN LET r == from_meta(mi) IN
         IF r.ok
         THEN [self |-> [self_ EXCEPT !.with = r.val], ret |-> Ok]
         ELSE [self |-> self_, ret |-> Err(r.err)]
    ELSE [self |-> self_, ret |-> Err(with_span(unknown_field_path(path), mi))]

\* ------------------------------------------------------------ state machine
NoCall == [op |-> "new", desc |-> NoDesc, input |-> <<>>, mi |-> NoMeta]
NoRet == [kind |-> "none", tokens |-> <<>>, result |-> Ok]
Fragment(ts) == [kind |-> "fragment", tokens |-> ts, result |-> Ok]
Result(r) == [kind |-> "result", tokens |-> <<>>, result |-> r]

\* A freshly built IdentField: any name and type, no transform configured.
Init ==
    /\ self \in {d \in Descriptors : d.with = None}
    /\ call = NoCall
    /\ ret = NoRet
    /\ lastWith = None

\* self.create_field_optional(input)
CreateFieldOptional ==
    \E input \in Inputs :
        /\ call' = [op |-> "create_field_optional", desc |-> self, input |-> input,
                    mi |-> NoMeta]
        /\ ret' = Fragment(create_field_optional(self, input))
        /\ UNCHANGED <<self, lastWith>>

\* self.create_field(input)
CreateField ==
    \E input \in Inputs :
        /\ call' = [op |-> "create_field", desc |-> self, input |-> input, mi |-> NoMeta]
        /\ ret' = Fragment(create_field(self, input))
        /\ UNCHANGED <<self, lastWith>>

\* codegen::ident_field::create_optional(&ident_field, input)
CreateOptional ==
    \E ident_field \in Descriptors, input \in Inputs :
        /\ call' = [op |-> "create_optional", desc |-> ident_field, input |-> input,
                    mi |-> NoMeta]
        /\ ret' = Fragment(create_optional(ident_field, input))
        /\ UNCHANGED <<self, lastWith>>

\* codegen::ident_field::create(&ident_field, input)
Create ==
    \E ident_field \in Descriptors, input \in Inputs :
        /\ call' = [op |-> "create", desc |-> ident_field, input |-> input, mi |-> NoMeta]
        /\ ret' = Fragment(create(ident_field, input))
        /\ UNCHANGED <<self, lastWith>>

\* self.parse_nested(&mi)
ParseNested ==
    \E mi \in Metas :
        LET r == parse_nested(self, mi) IN
        /\ call' = [op |-> "parse_nested", desc |-> self, input |-> <<>>, mi |-> mi]
        /\ self' = r.self
        /\ ret' = Result(r.ret)
        /\ lastWith' = IF r.ret.ok /\ is_ident(mi.path, "with")
                       THEN Some(mi.value.tokens)
                       ELSE lastWith

Next ==
    \/ CreateFieldOptional
    \/ CreateField
    \/ CreateOptional
    \/ Create
    \/ ParseNested

Spec == Init /\ [][Next]_vars

TypeOK ==
    /\ self \in Descriptors
    /\ lastWith \in OptCallables
    /\ call.op \in {"new", "create_field_optional", "create_field", "create_optional",
                    "create", "parse_nested"}
\* ---------------------------------------------------- reading the last call
GenOps == {"create_field_optional", "create_field", "create_optional", "create"}
UtilOps == {"create_field_optional", "create_field"}
OptionalOps == {"create_field_optional", "create_optional"}

\* The last call was a generation call (and ret holds its fragment).
Generated == call.op \in GenOps /\ ret.kind = "fragment"
\* The last call was a parse_nested call (and ret holds its result).
Parsed == call.op = "parse_nested" /\ ret.kind = "result"

\* The fragment an entry point of an implementation emits.
Emit(util, optional, desc, input) ==
    IF util
    THEN IF optional THEN create_field_optional(desc, input) ELSE create_field(desc, input)
    ELSE IF optional THEN create_optional(desc, input) ELSE create(desc, input)

\* The crate root each implementation writes its paths from.
RootOf(util) == IF util THEN <<"::", "darling">> ELSE <<"_darling">>
\* Option<Ident> and Ident, written from a crate root.
OptionIdentTy(root) ==
    root \o <<"::", "export", "::", "Option", "<">> \o root
         \o <<"::", "export", "::", "syn", "::", "Ident", ">">>
BareIdentTy(root) == root \o <<"::", "export", "::", "syn", "::", "Ident">>

\* The key `with`, and a value that is a valid callable.
WithKey == [leading_colon |-> FALSE, segments |-> <<"with">>]
ValidWith(mi) ==
    /\ mi.path = WithKey
    /\ mi.kind = "NameValue"
    /\ mi.value.kind \in {"Path", "Closure"}

\* ------------------------------------------------------------------ claims

\* C1: with no transform, either entry point of either implementation emits
\* exactly `name: input,` -- the same for both entry points, whatever the type.
C1_NoTransformBindsInput ==
    (Generated /\ ~call.desc.with.some) =>
        /\ ret.tokens = <<call.desc.ident, ":">> \o call.input \o <<",">>
        /\ \A optional \in BOOLEAN, ty \in Types :
              Emit(call.op \in UtilOps, optional, [call.desc EXCEPT !.ty = ty], call.input)
                  = ret.tokens

C1_Witness ==
    /\ Generated
    /\ call.op = "create_field_optional"
    /\ ~call.desc.with.some
    /\ call.desc.ty = <<"Option", "<", "String", ">">>
    /\ Len(call.input) > 1
    /\ ret.tokens = <<call.desc.ident, ":">> \o call.input \o <<",">>
\* The optional-entry and required-entry fragments of the last generation call's
\* implementation, descriptor and input: one is the fragment the call returned,
\* the other what the sibling entry point emits.
OptionalFragment ==
    IF call.op \in OptionalOps THEN ret.tokens
    ELSE Emit(call.op \in UtilOps, TRUE, call.desc, call.input)
RequiredFragment ==
    IF call.op \in OptionalOps
    THEN Emit(call.op \in UtilOps, FALSE, call.desc, call.input)
    ELSE ret.tokens

\* opt and req are one common prefix ending in `fn (`, then optTy in opt and
\* reqTy in req, then one common suffix starting with `) ->`.
DifferOnlyInInputType(opt, req, optTy, reqTy) ==
    \E p \in 2..Len(req) :
        /\ p + Len(optTy) + 2 <= Len(opt)
        /\ p + Len(reqTy) + 2 <= Len(req)
        /\ SubSeq(opt, 1, p) = SubSeq(req, 1, p)
        /\ opt[p - 1] = "fn" /\ opt[p] = "("
        /\ SubSeq(opt, p + 1, p + Len(optTy)) = optTy
        /\ SubSeq(req, p + 1, p + Len(reqTy)) = reqTy
        /\ SubSeq(opt, p + Len(optTy) + 1, Len(opt))
               = SubSeq(req, p + Len(reqTy) + 1, Len(req))
        /\ req[p + Len(reqTy) + 1] = ")" /\ req[p + Len(reqTy) + 2] = "->"

\* C2: with a transform, the optional entry point ascribes the transform as
\* taking Option<Ident>, the required one as taking Ident, and the two
\* fragments differ in that input type and in nothing else.
C2_EntryPointsDifferOnlyInInputType ==
    (Generated /\ call.desc.with.some) =>
        /\ OptionalFragment # RequiredFragment
        /\ DifferOnlyInInputType(OptionalFragment, RequiredFragment,
                                 OptionIdentTy(RootOf(call.op \in UtilOps)),
                                 BareIdentTy(RootOf(call.op \in UtilOps)))

C2_Witness ==
    /\ Generated
    /\ call.op = "create_optional"
    /\ call.desc.with = Some(<<"util", "::", "check">>)
    /\ ret.tokens = OptionalFragment
    /\ Len(OptionalFragment) = Len(RequiredFragment) + 7
    /\ DifferOnlyInInputType(OptionalFragment, RequiredFragment,
                             OptionIdentTy(<<"_darling">>), BareIdentTy(<<"_darling">>))

\* `name: identity::<fn(inTy) -> Result<ty>>(f)(v)?,` written from a crate root.
AscribedCall(root, name, inTy, ty, f, v) ==
    <<name, ":">> \o root \o <<"::", "export", "::", "identity", "::", "<", "fn", "(">>
    \o inTy \o <<")", "->">> \o root \o <<"::", "Result", "<">> \o ty \o <<">", ">">>
    \o <<"(">> \o f \o <<")">>
    \o <<"(">> \o v \o <<")">>
    \o <<"?", ",">>

\* The input type the last generation call's entry point expects.
ExpectedInputTy ==
    IF call.op \in OptionalOps
    THEN OptionIdentTy(RootOf(call.op \in UtilOps))
    ELSE BareIdentTy(RootOf(call.op \in UtilOps))

\* C3: with a transform, the fragment is the field name bound to: the transform
\* ascribed as fn(expected input type) -> Result<declared type>, called with the
\* input, followed by `?`; the `?` is never omitted and the result type is
\* always the declared type.
C3_TransformAscribedCalledPropagated ==
    (Generated /\ call.desc.with.some) =>
        LET n == Len(ret.tokens) IN
        /\ ret.tokens = AscribedCall(RootOf(call.op \in UtilOps), call.desc.ident,
                                     ExpectedInputTy, call.desc.ty,
                                     call.desc.with.call, call.input)
        /\ n >= 2
        /\ ret.tokens[n - 1] = "?"
        /\ ret.tokens[n] = ","

C3_Witness ==
    /\ Generated
    /\ call.op = "create_field"
    /\ call.desc = [ident |-> "name", ty |-> <<"Option", "<", "String", ">">>,
                    with |-> Some(<<"require_ident">>)]
    /\ call.input = <<"v">>
    /\ ret.tokens =
         <<"name", ":", "::", "darling", "::", "export", "::", "identity", "::", "<",
           "fn", "(", "::", "darling", "::", "export", "::", "syn", "::", "Ident", ")",
           "->", "::", "darling", "::", "Result", "<", "Option", "<", "String", ">",
           ">", ">", "(", "require_ident", ")", "(", "v", ")", "?", ",">>

\* Tokens that cannot end a path: a `::` after one of them (or first) is a leading `::`.
NonPathTokens == {":", "<", "(", "->", ",", ">", ")", "?", "|", "."}

\* A token stream with each crate root (`_darling`, or `darling` after a leading
\* `::`) replaced by the token "$root".  prev is the token before ts, "" for none.
RECURSIVE NormRoot(_, _)
NormRoot(prev, ts) ==
    IF Len(ts) = 0 THEN <<>>
    ELSE IF ts[1] = "_darling"
         THEN <<"$root">> \o NormRoot("$root", Tail(ts))
    ELSE IF /\ Len(ts) >= 2
            /\ ts[1] = "::"
            /\ ts[2] = "darling"
            /\ (prev = "" \/ prev \in NonPathTokens)
         THEN <<"$root">> \o NormRoot("$root", Tail(Tail(ts)))
    ELSE <<ts[1]>> \o NormRoot(ts[1], Tail(ts))

\* What the other implementation emits for the last generation call's entry
\* point, descriptor and input.
OtherImplementation ==
    Emit(call.op \notin UtilOps, call.op \in OptionalOps, call.desc, call.input)

\* C8: the util methods and the codegen functions emit, for the same
\* descriptor, input and entry point, fragments that are equal up to the crate
\* root (`::darling` / `_darling`), and equal when there is no transform.
C8_ImplementationsEquivalent ==
    Generated =>
        /\ NormRoot("", ret.tokens) = NormRoot("", OtherImplementation)
        /\ ~call.desc.with.some => ret.tokens = OtherImplementation

C8_Witness ==
    /\ Generated
    /\ call.op = "create_field_optional"
    /\ call.desc.with.some
    /\ ret.tokens # OtherImplementation
    /\ "$root" \in {NormRoot("", ret.tokens)[i] : i \in 1..Len(NormRoot("", ret.tokens))}
    /\ NormRoot("", ret.tokens) = NormRoot("", OtherImplementation)
\* C4: parse_nested with the key `with` and a valid callable value succeeds and
\* leaves the transform Some(that callable), whatever it was before.
C4_WithSetsTransform ==
    (Parsed /\ ValidWith(call.mi)) =>
        /\ ret.result.ok
        /\ self.with.some
        /\ self.with.call = call.mi.value.tokens

C4_Witness ==
    /\ Parsed
    /\ ValidWith(call.mi)
    /\ call.desc.with.some
    /\ call.desc.with.call # call.mi.value.tokens
    /\ ret.result.ok
    /\ self.with = Some(call.mi.value.tokens)

\* C5: parse_nested with any key other than `with` returns an unknown-field
\* error naming the key and carrying the attribute's span; it never succeeds.
C5_UnknownKeyRejected ==
    (Parsed /\ call.mi.path # WithKey) =>
        /\ ~ret.result.ok
        /\ ret.result.err.kind = "UnknownField"
        /\ ret.result.err.name = path_to_string(call.mi.path)
        /\ ret.result.err.span = call.mi.span
        /\ call.mi.span # 0

C5_Witness ==
    /\ Parsed
    /\ call.mi.path = [leading_colon |-> FALSE, segments |-> <<"skip", "with">>]
    /\ call.mi.kind = "NameValue"
    /\ call.mi.value.kind = "Path"
    /\ call.desc.with.some
    /\ ret.result = Err([kind |-> "UnknownField", name |-> "skip::with", span |-> 2])

\* C7: no call changes the name or the declared type, a generation call
\* changes none of the three fields, and so only parse_nested changes the
\* descriptor, and only its transform.
C7_OnlyParseChangesOnlyTransform ==
    [][/\ self'.ident = self.ident
       /\ self'.ty = self.ty
       /\ (call'.op # "parse_nested" => self' = self)]_vars

C7_Witness ==
    /\ Parsed
    /\ ret.result.ok
    /\ self # call.desc
    /\ self.ident = call.desc.ident
    /\ self.ty = call.desc.ty

\* C9: a parse_nested call that returns an error leaves the descriptor as it
\* was; a configured transform is neither cleared nor replaced.
C9_FailedParseLeavesDescriptor ==
    (Parsed /\ ~ret.result.ok) => self = call.desc

C9_Witness ==
    /\ Parsed
    /\ ~ret.result.ok
    /\ call.mi.path = WithKey
    /\ call.mi.kind = "NameValue"
    /\ call.mi.value.kind = "Lit"
    /\ call.desc.with.some
    /\ self.with = call.desc.with

\* C10: a repeated `with` is not rejected: a valid `with` on a descriptor that
\* already has a transform succeeds and replaces it; the transform is always
\* the callable of the last successful `with` parse (absent if none), and the
\* util generators emit that callable.
C10_LastWithWins ==
    /\ self.with = lastWith
    /\ (Parsed /\ ValidWith(call.mi) /\ call.desc.with.some) =>
           ret.result.ok /\ self.with = Some(call.mi.value.tokens)
    /\ (Generated /\ call.op \in UtilOps) =>
           /\ call.desc.with = lastWith
           /\ lastWith.some =>
                LET n == Len(ret.tokens)
                    v == Len(call.input)
                    c == Len(lastWith.call)
                IN SubSeq(ret.tokens, n - 4 - v - c, n - 5 - v) = lastWith.call

C10_Witness ==
    /\ Generated
    /\ call.op = "create_field"
    /\ lastWith = Some(<<"|", "i", "|", "Ok", "(", "i", ")">>)
    /\ self.with = lastWith
    /\ SubSeq(ret.tokens, Len(ret.tokens) - 11 - Len(call.input),
              Len(ret.tokens) - 5 - Len(call.input)) = lastWith.call
====
